---- MODULE Spec2Model ----
(***************************************************************************)
(* State-machine model of the InputForm component                          *)
(* (frontend/src/components/InputForm.tsx).                                *)
(*                                                                         *)
(* A text is a sequence of characters.  Every event handler runs to        *)
(* completion and is followed by one render (React batches the state       *)
(* updates made inside one handler), so one action = one handler plus the  *)
(* render of the resulting state.                                          *)
(***************************************************************************)
EXTENDS Naturals, Sequences, FiniteSets, TLC

VARIABLES
    internalInputValue,  \* useState("")  : the textarea's text
    effort,              \* useState("medium")
    provider,            \* useState("gemini")
    model,               \* useState("gemini-2.5-flash-preview-04-17")
    isLoading,           \* prop, driven by the parent
    hasHistory,          \* prop, driven by the parent
    rendered,            \* what the last render put on screen
    emitted,             \* the callback invocations made by the last handler
    lastEvent            \* the event the last handler reacted to

vars == <<internalInputValue, effort, provider, model, isLoading, hasHistory,
          rendered, emitted, lastEvent>>

formState == <<internalInputValue, effort, provider, model>>

-----------------------------------------------------------------------------
(* Bounds and input alphabets *)

MaxLen == 3

Chars == {" ", "\n", "a"}

Texts == UNION {[1..n -> Chars] : n \in 0..MaxLen}

\* e.target.value after one edit of the text: a character typed at the end
\* (a line break is what Shift+Enter leaves), or the last character deleted.
\* Every text of Texts is reached by a sequence of such edits.
Edits(text) ==
    {Append(text, c) : c \in IF Len(text) < MaxLen THEN Chars ELSE {}}
        \cup (IF text = <<>> THEN {} ELSE {SubSeq(text, 1, Len(text) - 1)})

Keys == {"Enter", "a"}

-----------------------------------------------------------------------------
(* The static tables of the component *)

modelOptions ==
    [gemini |-> << [value |-> "gemini-2.0-flash", label |-> "2.0 Flash"],
                   [value |-> "gemini-2.5-flash-preview-04-17", label |-> "2.5 Flash"],
                   [value |-> "gemini-2.5-pro-preview-05-06", label |-> "2.5 Pro"] >>,
     openai |-> << [value |-> "gpt-4o-mini", label |-> "GPT-4o Mini"],
                   [value |-> "gpt-4o", label |-> "GPT-4o"],
                   [value |-> "gpt-4-turbo", label |-> "GPT-4 Turbo"] >>,
     qwen   |-> << [value |-> "qwen-plus", label |-> "Qwen Plus"],
                   [value |-> "qwen-max", label |-> "Qwen Max"] >>,
     grok   |-> << [value |-> "grok-beta", label |-> "Grok Beta"] >>]

\* the SelectItem values of the effort Select
effortItems == {"low", "medium", "high"}

\* the SelectItem values of the provider Select
providerItems == {"gemini", "openai", "qwen", "grok"}

\* modelOptions[p].map(option => option.value)
modelItemsOf(p) == {modelOptions[p][i].value : i \in 1..Len(modelOptions[p])}

-----------------------------------------------------------------------------
(* String.prototype.trim *)

isWhiteSpace(c) == c \in {" ", "\t", "\n", "\r"}

RECURSIVE trimStart(_)
trimStart(s) ==
    IF s = <<>> THEN s
    ELSE IF isWhiteSpace(Head(s)) THEN trimStart(Tail(s))
    ELSE s

RECURSIVE trimEnd(_)
trimEnd(s) ==
    IF s = <<>> THEN s
    ELSE IF isWhiteSpace(s[Len(s)]) THEN trimEnd(SubSeq(s, 1, Len(s) - 1))
    ELSE s

trim(s) == trimEnd(trimStart(s))

-----------------------------------------------------------------------------
(* Callback invocations and events *)

onSubmit(inputValue, e, p, m) ==
    [cb |-> "onSubmit", inputValue |-> inputValue, effort |-> e,
     provider |-> p, model |-> m]

onCancel ==
    [cb |-> "onCancel", inputValue |-> <<>>, effort |-> "",
     provider |-> "", model |-> ""]

Event(type, key, shift, arg) ==
    [type |-> type, key |-> key, shift |-> shift, arg |-> arg]

-----------------------------------------------------------------------------
(* Render: the controls the JSX puts on screen for a state *)

isSubmitDisabled(text, loading) == (trim(text) = <<>>) \/ loading

\* a render that always shows the submit Button, also next to the cancel Button
Render_AlwaysSubmit(text, p, loading, history) ==
    [cancelButton    |-> loading,
     submitButton    |-> TRUE,
     submitDisabled  |-> isSubmitDisabled(text, loading),
     modelItems      |-> modelItemsOf(p),
     newSearchButton |-> history]

Render(text, p, loading, history) ==
    [cancelButton    |-> loading,
     submitButton    |-> ~loading,
     submitDisabled  |-> isSubmitDisabled(text, loading),
     modelItems      |-> modelItemsOf(p),
     newSearchButton |-> history]

Rerender ==
    rendered' = Render(internalInputValue', provider', isLoading', hasHistory')

-----------------------------------------------------------------------------
(* Mount *)

\* a mount whose model is the first entry of the gemini options
DefaultState_FirstModel ==
    [internalInputValue |-> <<>>,
     effort             |-> "medium",
     provider           |-> "gemini",
     model              |-> "gemini-2.0-flash"]

DefaultState ==
    [internalInputValue |-> <<>>,
     effort             |-> "medium",
     provider           |-> "gemini",
     model              |-> "gemini-2.5-flash-preview-04-17"]

Init ==
    /\ internalInputValue = DefaultState.internalInputValue
    /\ effort = DefaultState.effort
    /\ provider = DefaultState.provider
    /\ model = DefaultState.model
    /\ isLoading \in BOOLEAN
    /\ hasHistory \in BOOLEAN
    /\ rendered = Render(internalInputValue, provider, isLoading, hasHistory)
    /\ emitted = <<>>
    /\ lastEvent = Event("mount", "", FALSE, "")

-----------------------------------------------------------------------------
(* Handlers *)

\* a provider change that forgets setModel
handleProviderChange_NoModel(newProvider) ==
    /\ provider' = newProvider
    /\ UNCHANGED <<internalInputValue, effort, model>>
    /\ emitted' = <<>>

\* a provider change that looks the first model up under the provider of the
\* last render instead of newProvider
handleProviderChange_Stale(newProvider) ==
    /\ provider' = newProvider
    /\ model' = modelOptions[provider][1].value
    /\ UNCHANGED <<internalInputValue, effort>>
    /\ emitted' = <<>>

handleProviderChange(newProvider) ==
    /\ provider' = newProvider
    /\ model' = modelOptions[newProvider][1].value
    /\ UNCHANGED <<internalInputValue, effort>>
    /\ emitted' = <<>>

\* a submit that hands the trimmed text to onSubmit
handleInternalSubmit_Trimmed ==
    IF trim(internalInputValue) = <<>>
    THEN /\ emitted' = <<>>
         /\ UNCHANGED formState
    ELSE /\ emitted' = <<onSubmit(trim(internalInputValue), effort, provider, model)>>
         /\ internalInputValue' = <<>>
         /\ UNCHANGED <<effort, provider, model>>

\* a submit that tests the text without trimming it
handleInternalSubmit_RawCheck ==
    IF internalInputValue = <<>>
    THEN /\ emitted' = <<>>
         /\ UNCHANGED formState
    ELSE /\ emitted' = <<onSubmit(internalInputValue, effort, provider, model)>>
         /\ internalInputValue' = <<>>
         /\ UNCHANGED <<effort, provider, model>>

\* a submit without the early return
handleInternalSubmit_NoCheck ==
    /\ emitted' = <<onSubmit(internalInputValue, effort, provider, model)>>
    /\ internalInputValue' = <<>>
    /\ UNCHANGED <<effort, provider, model>>

\* a submit that resets the whole form, not only the text
handleInternalSubmit_ResetAll ==
    IF trim(internalInputValue) = <<>>
    THEN /\ emitted' = <<>>
         /\ UNCHANGED formState
    ELSE /\ emitted' = <<onSubmit(internalInputValue, effort, provider, model)>>
         /\ internalInputValue' = <<>>
         /\ effort' = "medium"
         /\ provider' = "gemini"
         /\ model' = "gemini-2.5-flash-preview-04-17"

handleInternalSubmit ==
    IF trim(internalInputValue) = <<>>
    THEN /\ emitted' = <<>>
         /\ UNCHANGED formState
    ELSE /\ emitted' = <<onSubmit(internalInputValue, effort, provider, model)>>
         /\ internalInputValue' = <<>>
         /\ UNCHANGED <<effort, provider, model>>

\* a key handler that does not look at shiftKey
handleInternalKeyDown_NoShift(key, shiftKey) ==
    IF key = "Enter"
    THEN handleInternalSubmit
    ELSE /\ emitted' = <<>>
         /\ UNCHANGED formState

handleInternalKeyDown(key, shiftKey) ==
    IF key = "Enter" /\ ~shiftKey
    THEN handleInternalSubmit
    ELSE /\ emitted' = <<>>
         /\ UNCHANGED formState

-----------------------------------------------------------------------------
(* Actions: one per user or parent event *)

\* <Textarea onChange={(e) => setInternalInputValue(e.target.value)}>
TextareaChange ==
    \E text \in Edits(internalInputValue) :
        /\ internalInputValue' = text
        /\ UNCHANGED <<effort, provider, model, isLoading, hasHistory>>
        /\ emitted' = <<>>
        /\ lastEvent' = Event("change", "", FALSE, "")
        /\ Rerender

\* <Select value={effort} onValueChange={setEffort}>
EffortSelect ==
    \E level \in effortItems :
        /\ effort' = level
        /\ UNCHANGED <<internalInputValue, provider, model, isLoading, hasHistory>>
        /\ emitted' = <<>>
        /\ lastEvent' = Event("effort", "", FALSE, level)
        /\ Rerender

\* <Select value={provider} onValueChange={handleProviderChange}>
ProviderSelect ==
    \E p \in providerItems :
        /\ handleProviderChange(p)
        /\ UNCHANGED <<isLoading, hasHistory>>
        /\ lastEvent' = Event("provider", "", FALSE, p)
        /\ Rerender

\* <Select value={model} onValueChange={setModel}>, items of the last render
ModelSelect ==
    \E m \in rendered.modelItems :
        /\ model' = m
        /\ UNCHANGED <<internalInputValue, effort, provider, isLoading, hasHistory>>
        /\ emitted' = <<>>
        /\ lastEvent' = Event("model", "", FALSE, m)
        /\ Rerender

\* <form onSubmit={handleInternalSubmit}>, fired by the enabled submit Button
FormSubmit ==
    /\ rendered.submitButton
    /\ ~rendered.submitDisabled
    /\ handleInternalSubmit
    /\ UNCHANGED <<isLoading, hasHistory>>
    /\ lastEvent' = Event("submit", "", FALSE, "")
    /\ Rerender

\* <Textarea onKeyDown={handleInternalKeyDown}>
TextareaKeyDown ==
    \E key \in Keys, shiftKey \in BOOLEAN :
        /\ handleInternalKeyDown(key, shiftKey)
        /\ UNCHANGED <<isLoading, hasHistory>>
        /\ lastEvent' = Event("keydown", key, shiftKey, "")
        /\ Rerender

\* <Button type="button" onClick={onCancel}>
CancelClick ==
    /\ rendered.cancelButton
    /\ emitted' = <<onCancel>>
    /\ UNCHANGED <<formState, isLoading, hasHistory>>
    /\ lastEvent' = Event("cancel", "", FALSE, "")
    /\ Rerender

\* <Button onClick={() => window.location.reload()}>: the page is loaded anew
NewSearchClick ==
    /\ rendered.newSearchButton
    /\ internalInputValue' = DefaultState.internalInputValue
    /\ effort' = DefaultState.effort
    /\ provider' = DefaultState.provider
    /\ model' = DefaultState.model
    /\ isLoading' \in BOOLEAN
    /\ hasHistory' \in BOOLEAN
    /\ emitted' = <<>>
    /\ lastEvent' = Event("mount", "", FALSE, "")
    /\ Rerender

\* the parent re-renders the component with other props
PropsChange ==
    \E loading \in BOOLEAN, history \in BOOLEAN :
        /\ <<loading, history>> # <<isLoading, hasHistory>>
        /\ isLoading' = loading
        /\ hasHistory' = history
        /\ UNCHANGED formState
        /\ emitted' = <<>>
        /\ lastEvent' = Event("props", "", FALSE, "")
        /\ Rerender

Next ==
    \/ TextareaChange
    \/ EffortSelect
    \/ ProviderSelect
    \/ ModelSelect
    \/ FormSubmit
    \/ TextareaKeyDown
    \/ CancelClick
    \/ NewSearchClick
    \/ PropsChange

Spec == Init /\ [][Next]_vars

TypeOK ==
    /\ internalInputValue \in Texts
    /\ effort \in effortItems
    /\ provider \in providerItems
    /\ isLoading \in BOOLEAN
    /\ hasHistory \in BOOLEAN
    /\ Len(emitted) <= 1

-----------------------------------------------------------------------------
(* Vocabulary of the properties *)

\* the two submit triggers: the submit control and bare Enter in the text field
IsSubmitTrigger(ev) ==
    \/ ev.type = "submit"
    \/ ev.type = "keydown" /\ ev.key = "Enter" /\ ~ev.shift

IsBareEnter(ev) == ev.type = "keydown" /\ ev.key = "Enter" /\ ~ev.shift

Invoked(calls, cb) == \E i \in DOMAIN calls : calls[i].cb = cb

\* the first model id of each provider, as the documentation lists them
FirstModelId(p) ==
    CASE p = "gemini" -> "gemini-2.0-flash"
      [] p = "openai" -> "gpt-4o-mini"
      [] p = "qwen"   -> "qwen-plus"
      [] p = "grok"   -> "grok-beta"

-----------------------------------------------------------------------------
(* C1 *)

\* C1 as stated: a submit trigger with isLoading false and a text whose trimmed
\* form is non-empty invokes onSubmit exactly once with the TRIMMED text and the
\* current effort, provider and model, and the text is empty afterwards.
C1_SubmitPassesTrimmedText ==
    [][ (IsSubmitTrigger(lastEvent') /\ ~isLoading /\ trim(internalInputValue) # <<>>)
          => /\ emitted' = <<onSubmit(trim(internalInputValue), effort, provider, model)>>
             /\ internalInputValue' = <<>> ]_vars

\* C1 amended: a submit trigger with isLoading false and a text whose trimmed
\* form is non-empty invokes onSubmit exactly once with the text AS TYPED (not
\* trimmed) and the current effort, provider and model, and the text is empty
\* afterwards.
C1_SubmitPassesRawText ==
    [][ (IsSubmitTrigger(lastEvent') /\ ~isLoading /\ trim(internalInputValue) # <<>>)
          => /\ emitted' = <<[cb |-> "onSubmit", inputValue |-> internalInputValue,
                              effort |-> effort, provider |-> provider,
                              model |-> model]>>
             /\ internalInputValue' = <<>> ]_vars

\* a submission, not loading, of a text with white space around it
C1_Witness ==
    /\ IsSubmitTrigger(lastEvent)
    /\ ~isLoading
    /\ Len(emitted) = 1
    /\ emitted[1].cb = "onSubmit"
    /\ emitted[1].inputValue = <<" ", "a", " ">>
    /\ internalInputValue = <<>>

-----------------------------------------------------------------------------
(* C2 *)

\* C2: no handler invokes onSubmit in a state where isLoading is true (bare
\* Enter included), and a submit trigger does not clear the text there.
C2_NoSubmitWhileLoading ==
    [][ isLoading => /\ ~Invoked(emitted', "onSubmit")
                     /\ (IsSubmitTrigger(lastEvent')
                           => internalInputValue' = internalInputValue) ]_vars

-----------------------------------------------------------------------------
(* C3 *)

\* C3: in every reachable state the model is one of the model ids of the
\* selected provider.
C3_ModelBelongsToProvider ==
    /\ provider \in DOMAIN modelOptions
    /\ \E i \in 1..Len(modelOptions[provider]) : modelOptions[provider][i].value = model

\* a model picked by hand that is not its provider's first one
C3_Witness ==
    /\ lastEvent.type = "model"
    /\ provider = "openai"
    /\ model = "gpt-4-turbo"

-----------------------------------------------------------------------------
(* C4 *)

\* C4: right after a provider selection p the provider is p and the model is
\* the first model of p (gemini-2.0-flash, gpt-4o-mini, qwen-plus, grok-beta),
\* whatever the state before; so the model follows the last provider selected.
C4_ProviderChangeSetsFirstModel ==
    lastEvent.type = "provider"
        => /\ provider = lastEvent.arg
           /\ model = modelOptions[lastEvent.arg][1].value
           /\ model = FirstModelId(lastEvent.arg)

\* a provider selected after the effort was changed
C4_Witness ==
    /\ lastEvent.type = "provider"
    /\ lastEvent.arg = "qwen"
    /\ provider = "qwen"
    /\ model = "qwen-plus"
    /\ effort = "high"

-----------------------------------------------------------------------------
(* C5 *)

\* C5: a submit trigger on a text that is empty or only white space invokes no
\* callback and leaves the text, effort, provider and model as they were.
C5_BlankSubmitIsNoOp ==
    [][ (IsSubmitTrigger(lastEvent') /\ trim(internalInputValue) = <<>>)
          => /\ emitted' = <<>>
             /\ UNCHANGED <<internalInputValue, effort, provider, model>> ]_vars

\* bare Enter on a text of white space only
C5_Witness ==
    /\ IsBareEnter(lastEvent)
    /\ internalInputValue = <<" ", "\n">>
    /\ emitted = <<>>

-----------------------------------------------------------------------------
(* C6 *)

\* C6 as stated: at mount the text is empty, the effort medium, the provider
\* gemini and the model the FIRST entry of gemini's models (gemini-2.0-flash).
C6_MountSelectsFirstModel ==
    lastEvent.type = "mount"
        => /\ internalInputValue = <<>>
           /\ effort = "medium"
           /\ provider = "gemini"
           /\ model = modelOptions["gemini"][1].value

\* C6 amended: at mount the text is empty, the effort medium, the provider
\* gemini and the model gemini-2.5-flash-preview-04-17, the SECOND entry of
\* gemini's models: one of the provider's models, but not the one a provider
\* selection of gemini sets.
C6_MountSelectsSecondModel ==
    lastEvent.type = "mount"
        => /\ internalInputValue = <<>>
           /\ effort = "medium"
           /\ provider = "gemini"
           /\ model = "gemini-2.5-flash-preview-04-17"
           /\ model = modelOptions["gemini"][2].value
           /\ model # FirstModelId("gemini")

\* the mount after a reload of the page
C6_Witness ==
    /\ lastEvent.type = "mount"
    /\ model = "gemini-2.5-flash-preview-04-17"
    /\ rendered.submitDisabled
    /\ ~hasHistory
    /\ ~isLoading

-----------------------------------------------------------------------------
(* C7 *)

\* C7: every onSubmit invocation carries a query that is non-empty after
\* trimming, an effort of low/medium/high, one of the four providers and a
\* model of that provider.
C7_RequestWellFormed ==
    \A i \in DOMAIN emitted :
        emitted[i].cb = "onSubmit"
            => /\ trim(emitted[i].inputValue) # <<>>
               /\ emitted[i].effort \in {"low", "medium", "high"}
               /\ emitted[i].provider \in {"gemini", "openai", "qwen", "grok"}
               /\ emitted[i].model \in modelItemsOf(emitted[i].provider)

\* a request with selections other than the defaults
C7_Witness ==
    /\ Len(emitted) = 1
    /\ emitted[1].cb = "onSubmit"
    /\ emitted[1].effort = "low"
    /\ emitted[1].provider = "grok"
    /\ emitted[1].model = "grok-beta"

-----------------------------------------------------------------------------
(* C8 *)

\* C8: a step that invokes onSubmit empties the text and leaves effort,
\* provider and model as they were.
C8_SubmitKeepsSelections ==
    [][ Invoked(emitted', "onSubmit")
          => /\ internalInputValue' = <<>>
             /\ effort' = effort
             /\ provider' = provider
             /\ model' = model ]_vars

\* a submission made with selections other than the defaults
C8_Witness ==
    /\ Invoked(emitted, "onSubmit")
    /\ internalInputValue = <<>>
    /\ effort = "high"
    /\ provider = "qwen"
    /\ model = "qwen-max"

-----------------------------------------------------------------------------
(* C9 *)

\* the effect of submit() on a step
SubmitEffect ==
    IF trim(internalInputValue) = <<>>
    THEN emitted' = <<>> /\ UNCHANGED formState
    ELSE /\ Len(emitted') = 1
         /\ emitted'[1].cb = "onSubmit"
         /\ emitted'[1].effort = effort
         /\ emitted'[1].provider = provider
         /\ emitted'[1].model = model
         /\ emitted'[1].inputValue = internalInputValue
         /\ internalInputValue' = <<>>
         /\ UNCHANGED <<effort, provider, model>>

\* C9: bare Enter in the text field has the effect of submit(), the same the
\* submit control has; Enter with Shift held, and any other key, invokes no
\* callback and leaves the text (and the selections) as they were.
C9_EnterSubmitsShiftEnterDoesNot ==
    [][ /\ lastEvent'.type = "submit" => SubmitEffect
        /\ lastEvent'.type = "keydown"
             => IF lastEvent'.key = "Enter" /\ ~lastEvent'.shift
                THEN SubmitEffect
                ELSE emitted' = <<>> /\ UNCHANGED formState ]_vars

\* bare Enter that submitted a text
C9_Witness ==
    /\ IsBareEnter(lastEvent)
    /\ Invoked(emitted, "onSubmit")
    /\ internalInputValue = <<>>
    /\ isLoading = FALSE

-----------------------------------------------------------------------------
(* C10 *)

\* what is on screen, against the state
C10_Controls ==
    /\ rendered.cancelButton <=> isLoading
    /\ rendered.submitButton <=> ~isLoading
    /\ rendered.cancelButton # rendered.submitButton
    /\ rendered.submitDisabled <=> ~(Len(trim(internalInputValue)) > 0 /\ ~isLoading)

\* C10: in every state exactly one of the cancel and the submit control is on
\* screen, the cancel control iff isLoading; the submit control is disabled
\* iff not (trimmed text non-empty and not loading); onCancel is invoked only
\* from states where isLoading is true and changes no field of the form.
C10_ExactlyOneControl ==
    /\ []C10_Controls
    /\ [][ Invoked(emitted', "onCancel") => isLoading /\ UNCHANGED formState ]_vars

\* a cancel while a text is in the field
C10_Witness ==
    /\ lastEvent.type = "cancel"
    /\ emitted = <<onCancel>>
    /\ isLoading
    /\ internalInputValue = <<"a">>

====
